---- MODULE Spec2Model ----
(***************************************************************************)
(* A model of teejays/memorydb: the layered in-memory key-value store of   *)
(* store.go (Store, Set, Get, Delete, Count, Begin, Rollback, Commit,      *)
(* commitCountDiffs) as driven by the handlers of the line interface.      *)
(*                                                                         *)
(* Go pointers to Store objects are modelled as identifiers into `heap`.   *)
(* A Store that is no longer reachable from currentStore is garbage and is *)
(* dropped from `heap` (nothing in the program keeps another reference).   *)
(* Go maps are functions whose DOMAIN is the set of keys present, so that  *)
(* "present with value 0 / empty string" and "absent" stay distinct.       *)
(***************************************************************************)
EXTENDS Integers, Sequences, FiniteSets, TLC

(* ----------------------------- bounds ---------------------------------- *)

\* the number of state-changing engine calls explored in one run
MaxOps == 5

\* the keys and values the operations are called with; "" is the empty string
Keys == {"a", "b"}
Values == {"", "foo", "bar"}

(* --------------------------- program constants ------------------------- *)

\* the nil *Store / the nil error
Nil == 0
NoErr == "nil"

\* store.go: the two error sentinels
ERR_KEY_NOT_EXIST == "KEY NOT FOUND"
ERR_NOT_TRANSACTION == "TRANSACTION NOT FOUND"

\* identifiers of Store objects: a root and at most MaxOps transaction layers
StoreIds == 1..(MaxOps + 1)

VARIABLES
    heap,          \* the live Store objects: id -> [Kv, CountDiff, Parent]
    currentStore,  \* store.go: var currentStore *Store
    last,          \* the last engine call: its name, arguments and error (see Call)
    ops,           \* the number of state-changing calls made so far
    snap,          \* history: at each open transaction, what Get/Count returned when it began
    shadow         \* history: the root replayed without a transaction (depth-1 blocks)

vars == <<heap, currentStore, last, ops, snap, shadow>>

(* ------------------------------ Go maps -------------------------------- *)

EmptyMap == [x \in {} |-> 0]

\* m[k] = v (inserting k when absent)
MapPut(m, k, v) == [x \in (DOMAIN m) \cup {k} |-> IF x = k THEN v ELSE m[x]]

\* reading an int map: the zero value when the key is absent
MapInt(m, k) == IF k \in DOMAIN m THEN m[k] ELSE 0

(* ------------------------------ store.go ------------------------------- *)

\* NewStore: empty Kv, empty CountDiff, the given parent
NewStore(parent) == [Kv |-> EmptyMap, CountDiff |-> EmptyMap, Parent |-> parent]

\* the number of parent links from s to the root
RECURSIVE Depth(_, _)
Depth(h, s) == IF h[s].Parent = Nil THEN 0 ELSE 1 + Depth(h, h[s].Parent)

\* the stores on the parent chain of s, s included
RECURSIVE Chain(_, _)
Chain(h, s) == IF h[s].Parent = Nil THEN {s} ELSE {s} \cup Chain(h, h[s].Parent)

\* Store.GetPrimaryStore
RECURSIVE GetPrimaryStore(_, _)
GetPrimaryStore(h, s) ==
    IF h[s].Parent = Nil THEN s ELSE GetPrimaryStore(h, h[s].Parent)

\* a Get that reads a "" entry as no entry (used to test C5)
RECURSIVE GetSkipsTombstone(_, _, _)
GetSkipsTombstone(h, s, key) ==
    IF key \in DOMAIN h[s].Kv /\ h[s].Kv[key] # ""
    THEN [value |-> h[s].Kv[key], err |-> NoErr]
    ELSE IF h[s].Parent = Nil
         THEN [value |-> "", err |-> "KEY NOT FOUND"]
         ELSE GetSkipsTombstone(h, h[s].Parent, key)

\* Store.Get: the nearest Kv entry, or ("", ERR_KEY_NOT_EXIST) at the root
RECURSIVE Get(_, _, _)
Get(h, s, key) ==
    IF key \in DOMAIN h[s].Kv
    THEN [value |-> h[s].Kv[key], err |-> NoErr]
    ELSE IF h[s].Parent = Nil
         THEN [value |-> "", err |-> ERR_KEY_NOT_EXIST]
         ELSE Get(h, h[s].Parent, key)

\* a call of Get that remembers a miss as a "" entry of the layer it was
\* called on (used to test C20)
CallGetCachesMiss(h, s, key) ==
    LET r == Get(h, s, key)
    IN  [heap |-> IF r.err = ERR_KEY_NOT_EXIST
                  THEN [h EXCEPT ![s].Kv = MapPut(@, key, "")]
                  ELSE h,
         res |-> r]

\* a call s.Get(key): the heap after it, which the map reads of Get leave as
\* it was, and the pair returned
CallGet(h, s, key) == [heap |-> h, res |-> Get(h, s, key)]

\* a Count that reads the CountDiff of the current layer alone (used to test
\* C19)
CountLocalOnly(h, s, value) ==
    [cnt |-> MapInt(h[s].CountDiff, value), err |-> NoErr]

\* Store.Count: the sum of the CountDiff entries along the chain
RECURSIVE Count(_, _, _)
Count(h, s, value) ==
    LET cnt == MapInt(h[s].CountDiff, value) IN
    IF h[s].Parent = Nil
    THEN [cnt |-> cnt, err |-> NoErr]
    ELSE LET p == Count(h, h[s].Parent, value) IN
         IF p.err # NoErr
         THEN [cnt |-> -1, err |-> p.err]
         ELSE [cnt |-> cnt + p.cnt, err |-> NoErr]

\* a call s.Count(value): the heap after it, which the map reads of Count
\* leave as it was (a CountDiff read of an absent value yields 0 and adds no
\* entry), and the pair returned
CallCount(h, s, value) == [heap |-> h, res |-> Count(h, s, value)]

\* a Set that never decrements the count of the value it overwrites (used
\* to test C9)
SetNoDecrement(h, s, key, value) ==
    LET cd0 == h[s].CountDiff
        cd2 == IF value # ""
               THEN MapPut(cd0, value, MapInt(cd0, value) + 1)
               ELSE cd0
    IN  [heap |-> [h EXCEPT ![s].Kv = MapPut(@, key, value),
                            ![s].CountDiff = cd2],
         err |-> NoErr]

\* a Set that records the decrement for the old value on the layer holding
\* the entry it overwrites (used to test C16)
SetDecrementsAtOwner(h, s, key, value) ==
    LET old == Get(h, s, key)
        has == {i \in Chain(h, s) : key \in DOMAIN h[i].Kv}
        owner == CHOOSE i \in has : \A j \in has : Depth(h, j) <= Depth(h, i)
        h1 == IF old.err # ERR_KEY_NOT_EXIST
              THEN [h EXCEPT ![owner].CountDiff =
                       MapPut(@, old.value, MapInt(@, old.value) - 1)]
              ELSE h
        cd1 == h1[s].CountDiff
        cd2 == IF value # ""
               THEN MapPut(cd1, value, MapInt(cd1, value) + 1)
               ELSE cd1
    IN  [heap |-> [h1 EXCEPT ![s].Kv = MapPut(@, key, value),
                             ![s].CountDiff = cd2],
         err |-> NoErr]

\* a Set that stores and looks up the key in upper case (used to test C21)
SetFoldsCase(h, s, key, value) ==
    LET up  == CASE key = "a" -> "A" [] key = "b" -> "B" [] OTHER -> key
        old == Get(h, s, up)
        cd0 == h[s].CountDiff
        cd1 == IF old.err # ERR_KEY_NOT_EXIST
               THEN MapPut(cd0, old.value, MapInt(cd0, old.value) - 1)
               ELSE cd0
        cd2 == IF value # ""
               THEN MapPut(cd1, value, MapInt(cd1, value) + 1)
               ELSE cd1
    IN  [heap |-> [h EXCEPT ![s].Kv = MapPut(@, up, value),
                            ![s].CountDiff = cd2],
         err |-> NoErr]

\* Store.Set: the heap after the call, and the error returned
Set(h, s, key, value) ==
    LET old == Get(h, s, key)
        cd0 == h[s].CountDiff
        cd1 == IF old.err # ERR_KEY_NOT_EXIST
               THEN MapPut(cd0, old.value, MapInt(cd0, old.value) - 1)
               ELSE cd0
        cd2 == IF value # ""
               THEN MapPut(cd1, value, MapInt(cd1, value) + 1)
               ELSE cd1
    IN  IF old.err # NoErr /\ old.err # ERR_KEY_NOT_EXIST
        THEN [heap |-> h, err |-> old.err]
        ELSE [heap |-> [h EXCEPT ![s].Kv = MapPut(@, key, value),
                                 ![s].CountDiff = cd2],
              err |-> NoErr]

\* a Delete that writes its "" entry into the primary store (used to test
\* C13)
DeleteAtPrimary(h, s, key) ==
    LET got == Get(h, s, key) IN
    IF got.err # NoErr
    THEN [heap |-> h, err |-> got.err]
    ELSE [heap |-> Set(h, GetPrimaryStore(h, s), key, "").heap, err |-> NoErr]

\* a Delete that writes its "" entry before it looks at Get's error (used to
\* test C6)
DeleteWritesBeforeCheck(h, s, key) ==
    LET got == Get(h, s, key) IN
    [heap |-> [h EXCEPT ![s].Kv = MapPut(@, key, "")], err |-> got.err]

\* Store.Delete: fails when Get fails, else Set(key, "")
Delete(h, s, key) ==
    LET got == Get(h, s, key) IN
    IF got.err # NoErr
    THEN [heap |-> h, err |-> got.err]
    ELSE [heap |-> Set(h, s, key, "").heap, err |-> NoErr]

\* a Store identifier that is not in use
FreshId(h) == CHOOSE i \in StoreIds \ DOMAIN h : \A j \in StoreIds \ DOMAIN h : i <= j

\* dropping the stores that are unreachable from s
Collect(h, s) == [i \in Chain(h, s) |-> h[i]]

\* Store.Begin
Begin(h, s) ==
    LET n == FreshId(h) IN
    [heap |-> [i \in (DOMAIN h) \cup {n} |-> IF i = n THEN NewStore(s) ELSE h[i]],
     cur |-> n, err |-> NoErr]

\* a Rollback that returns to the primary store, not to the parent (used to
\* test C2)
RollbackToPrimary(h, s) ==
    IF h[s].Parent = Nil
    THEN [heap |-> h, cur |-> s, err |-> "TRANSACTION NOT FOUND"]
    ELSE LET primary == GetPrimaryStore(h, s) IN
         [heap |-> [i \in {primary} |-> h[i]], cur |-> primary, err |-> NoErr]

\* Store.Rollback
Rollback(h, s) ==
    IF h[s].Parent = Nil
    THEN [heap |-> h, cur |-> s, err |-> ERR_NOT_TRANSACTION]
    ELSE [heap |-> Collect(h, h[s].Parent), cur |-> h[s].Parent, err |-> NoErr]

\* a fold of the count deltas that adds the committing layer's CountDiff to
\* the primary store's and leaves the layers in between out (used to test
\* C18)
commitCountDiffsInnermost(h, s) ==
    IF h[s].Parent = Nil
    THEN h
    ELSE LET p  == GetPrimaryStore(h, s)
             cd == h[s].CountDiff
             pd == h[p].CountDiff
             nd == [v \in (DOMAIN pd) \cup (DOMAIN cd) |->
                       MapInt(pd, v) + MapInt(cd, v)]
         IN  [h EXCEPT ![p].CountDiff = nd]

\* Store.commitCountDiffs: every layer's CountDiff is added into its parent's,
\* from s up to the root; the heap after these writes
RECURSIVE commitCountDiffs(_, _)
commitCountDiffs(h, s) ==
    IF h[s].Parent = Nil
    THEN h
    ELSE LET p  == h[s].Parent
             cd == h[s].CountDiff
             pd == h[p].CountDiff
             nd == [v \in (DOMAIN pd) \cup (DOMAIN cd) |->
                       MapInt(pd, v) + MapInt(cd, v)]
         IN  commitCountDiffs([h EXCEPT ![p].CountDiff = nd], p)

\* a Kv merge that leaves the "" entries of the committing layer behind
\* (used to test C3)
MergeKvSkipsTombstones(h, s, primary) ==
    LET kv == h[s].Kv
        pk == h[primary].Kv
        wr == {k \in DOMAIN kv : kv[k] # ""}
    IN  [h EXCEPT ![primary].Kv =
            [k \in (DOMAIN pk) \cup wr |-> IF k \in wr THEN kv[k] ELSE pk[k]]]

\* a Kv merge that writes the entries of every layer from the primary
\* store's child up to the committing layer s, nearest layer last (used to
\* test C17)
MergeKvAllLayers(h, s, primary) ==
    LET layers == Chain(h, s) \ {primary}
        pk == h[primary].Kv
        has(k) == {i \in layers : k \in DOMAIN h[i].Kv}
        top(k) == CHOOSE i \in has(k) : \A j \in has(k) : Depth(h, j) <= Depth(h, i)
        wr == {k \in Keys : has(k) # {}}
    IN  [h EXCEPT ![primary].Kv =
            [k \in (DOMAIN pk) \cup wr |->
                IF k \in wr THEN h[top(k)].Kv[k] ELSE pk[k]]]

\* the Kv merge of Commit: the entries of the committing layer s, and only
\* those, are written into the primary store
MergeKv(h, s, primary) ==
    LET kv == h[s].Kv
        pk == h[primary].Kv
    IN  [h EXCEPT ![primary].Kv =
            [k \in (DOMAIN pk) \cup (DOMAIN kv) |->
                IF k \in DOMAIN kv THEN kv[k] ELSE pk[k]]]

\* a Commit that folds the layer into its parent and returns to the parent
\* (used to test C7)
CommitIntoParent(h, s) ==
    IF h[s].Parent = Nil
    THEN [heap |-> h, cur |-> s, err |-> ERR_NOT_TRANSACTION]
    ELSE LET p  == h[s].Parent
             h1 == MergeKv(h, s, p)
             cd == h[s].CountDiff
             pd == h[p].CountDiff
             nd == [v \in (DOMAIN pd) \cup (DOMAIN cd) |->
                       MapInt(pd, v) + MapInt(cd, v)]
             h2 == [h1 EXCEPT ![p].CountDiff = nd]
         IN  [heap |-> Collect(h2, p), cur |-> p, err |-> NoErr]

\* a Commit that leaves the merged state in the committing layer and makes
\* that layer the root (used to test C15)
CommitIntoNewRoot(h, s) ==
    IF h[s].Parent = Nil
    THEN [heap |-> h, cur |-> s, err |-> ERR_NOT_TRANSACTION]
    ELSE LET primary == GetPrimaryStore(h, s)
             h1 == MergeKv(h, s, primary)
             h2 == commitCountDiffs(h1, s)
         IN  [heap |-> [i \in {s} |-> h2[primary]], cur |-> s, err |-> NoErr]

\* Store.Commit
Commit(h, s) ==
    IF h[s].Parent = Nil
    THEN [heap |-> h, cur |-> s, err |-> ERR_NOT_TRANSACTION]
    ELSE LET primary == GetPrimaryStore(h, s)
             h1 == MergeKv(h, s, primary)
             h2 == commitCountDiffs(h1, s)
         IN  [heap |-> Collect(h2, primary), cur |-> primary, err |-> NoErr]

\* InitStore: a new root replaces whatever currentStore pointed to; the old
\* chain is garbage from then on, and its identifiers are used again
InitStore ==
    LET n == FreshId(EmptyMap) IN [heap |-> [i \in {n} |-> NewStore(Nil)], cur |-> n]

\* a handleGet without the val == "" test (used to test C12)
handleGetNoEmptyTest(h, s, key) ==
    LET r == Get(h, s, key) IN
    IF r.err = ERR_KEY_NOT_EXIST
    THEN [out |-> "NULL", err |-> NoErr]
    ELSE [out |-> r.value, err |-> r.err]

\* handleGet: the output and the error of GET key at store s
handleGet(h, s, key) ==
    LET r == Get(h, s, key) IN
    IF r.err = ERR_KEY_NOT_EXIST \/ r.value = ""
    THEN [out |-> "NULL", err |-> NoErr]
    ELSE [out |-> r.value, err |-> r.err]

(* --------------------------- observations ------------------------------ *)

\* what every Get and every Count returns at store s
Obs(h, s) ==
    [get |-> [k \in Keys |-> Get(h, s, k)],
     count |-> [v \in Values |-> Count(h, s, v)]]

\* the record of an engine call: its name and arguments, the error it
\* returned, the nesting depth it ran at, whether the layer it ran at held
\* Kv entries (kept for Rollback and Commit), whether an intermediate layer
\* held an entry of its own (kept for Commit), and whether it repeats the
\* call before it
Call(op, key, value, err, d, dirty) ==
    [op |-> op, key |-> key, value |-> value, err |-> err, depth |-> d,
     dirty |-> dirty, mid |-> FALSE,
     rep |-> (last.op = op /\ last.key = key /\ last.value = value)]

NoShadow == [valid |-> FALSE, heap |-> [i \in {1} |-> NewStore(Nil)]]

\* whether a layer strictly between s and the primary store holds an entry
\* for a key that s has no entry for and that differs from the primary
\* store's entry (kept for Commit)
Mid(h, s) ==
    LET primary == GetPrimaryStore(h, s)
    IN  \E i \in Chain(h, s) \ {s, primary} :
            \E k \in (DOMAIN h[i].Kv) \ (DOMAIN h[s].Kv) :
                k \in DOMAIN h[primary].Kv => h[primary].Kv[k] # h[i].Kv[k]

\* the history kept for a Set or Delete that ran at depth d
ShadowAfterWrite(d, h) ==
    IF d >= 1 /\ shadow.valid THEN [valid |-> TRUE, heap |-> h] ELSE NoShadow

(* ------------------------------- actions ------------------------------- *)

\* main / init(): InitStore()
Init ==
    /\ heap = InitStore.heap
    /\ currentStore = InitStore.cur
    /\ last = [op |-> "InitStore", key |-> "-", value |-> "-", err |-> NoErr,
               depth |-> 0, dirty |-> FALSE, mid |-> FALSE, rep |-> FALSE]
    /\ ops = 0
    /\ snap = <<>>
    /\ shadow = NoShadow

\* handleSet: GetCurrentStore().Set(key, value)
DoSet(key, value) ==
    LET r == Set(heap, currentStore, key, value)
        d == Depth(heap, currentStore)
    IN  /\ ops < MaxOps
        /\ ops' = ops + 1
        /\ heap' = r.heap
        /\ currentStore' = currentStore
        /\ last' = Call("Set", key, value, r.err, d, FALSE)
        /\ snap' = snap
        /\ shadow' = ShadowAfterWrite(d, Set(shadow.heap, 1, key, value).heap)

\* handleDelete: GetCurrentStore().Delete(key)
DoDelete(key) ==
    LET r == Delete(heap, currentStore, key)
        d == Depth(heap, currentStore)
    IN  /\ ops < MaxOps
        /\ ops' = ops + 1
        /\ heap' = r.heap
        /\ currentStore' = currentStore
        /\ last' = Call("Delete", key, "-", r.err, d, FALSE)
        /\ snap' = snap
        /\ shadow' = ShadowAfterWrite(d, Delete(shadow.heap, 1, key).heap)

\* handleGet's engine call: GetCurrentStore().Get(key)
DoGet(key) ==
    LET r == CallGet(heap, currentStore, key)
        d == Depth(heap, currentStore)
    IN  /\ heap' = r.heap
        /\ last' = Call("Get", key, "-", r.res.err, d, FALSE)
        /\ shadow' = IF d >= 1 THEN shadow ELSE NoShadow
        /\ UNCHANGED <<currentStore, ops, snap>>

\* handleCount's engine call: GetCurrentStore().Count(value)
DoCount(value) ==
    LET r == CallCount(heap, currentStore, value)
        d == Depth(heap, currentStore)
    IN  /\ heap' = r.heap
        /\ last' = Call("Count", "-", value, r.res.err, d, FALSE)
        /\ shadow' = IF d >= 1 THEN shadow ELSE NoShadow
        /\ UNCHANGED <<currentStore, ops, snap>>

\* handleBegin: GetCurrentStore().Begin()
DoBegin ==
    LET r == Begin(heap, currentStore)
        d == Depth(heap, currentStore)
    IN  /\ ops < MaxOps
        /\ ops' = ops + 1
        /\ heap' = r.heap
        /\ currentStore' = r.cur
        /\ last' = Call("Begin", "-", "-", r.err, d, FALSE)
        /\ snap' = Append(snap, [obs |-> Obs(heap, currentStore), depth |-> d])
        /\ shadow' = IF d = 0
                     THEN [valid |-> TRUE, heap |-> [i \in {1} |-> heap[currentStore]]]
                     ELSE NoShadow

\* handleRollback: GetCurrentStore().Rollback()
DoRollback ==
    LET r == Rollback(heap, currentStore)
        d == Depth(heap, currentStore)
    IN  /\ ops < MaxOps
        /\ ops' = ops + 1
        /\ heap' = r.heap
        /\ currentStore' = r.cur
        /\ last' = Call("Rollback", "-", "-", r.err, d,
                        heap[currentStore].Kv # EmptyMap)
        /\ snap' = IF r.err = NoErr THEN SubSeq(snap, 1, Len(snap) - 1) ELSE snap
        /\ shadow' = NoShadow

\* handleCommit: GetCurrentStore().Commit()
DoCommit ==
    LET r == Commit(heap, currentStore)
        d == Depth(heap, currentStore)
    IN  /\ ops < MaxOps
        /\ ops' = ops + 1
        /\ heap' = r.heap
        /\ currentStore' = r.cur
        /\ last' = [Call("Commit", "-", "-", r.err, d,
                         heap[currentStore].Kv # EmptyMap)
                        EXCEPT !.mid = Mid(heap, currentStore)]
        /\ snap' = IF r.err = NoErr THEN <<>> ELSE snap
        /\ shadow' = IF d = 1 THEN shadow ELSE NoShadow

\* handleEnd with EnableTestMode set (as the tests run it): InitStore()
DoEnd ==
    LET r == InitStore
    IN  /\ ops < MaxOps
        /\ ops' = ops + 1
        /\ heap' = r.heap
        /\ currentStore' = r.cur
        /\ last' = Call("InitStore", "-", "-", NoErr, 0, FALSE)
        /\ snap' = <<>>
        /\ shadow' = NoShadow

(* --------------------------- the line interface ------------------------ *)

\* A statement is the sequence of its pieces: a word (a run of letters), a
\* space " " or a tab "\t". Words are never adjacent in the statements used.
Whitespace == {" ", "\t"}

\* the error sentinels of the line interface
ERR_INVALID_COMMAND_KEYWORD == "INVALID COMMAND"
ERR_INVALID_ARGS_NUM == "INVALID NUMBER OF ARGUMENTS PROVIDED"
ERR_STMT_EMPTY == "EMPTY STATEMENT PROVIDED"

\* the statements fed to processStatement
Statements ==
    { <<>>, <<" ", " ", " ">>, <<"\t">>, <<" ", "\t", " ">>,
      <<"BLAH", " ", "a", " ", "foo">>, <<" ", "a">>, <<"GET", "\t", "a">>,
      <<"GET", " ", "a", " ", "a", " ", " ">>,
      <<"SET", " ", "a", " ", "foo", " ", "bar">>,
      <<"SET", " ", "a">>, <<"GET", " ", " ", "a">>, <<"get">>,
      <<"BEGIN", " ", "a">>, <<"commit", " ", "a", " ", "b">>, <<"COUNT">>,
      <<"SET", " ", "a", " ", "foo">>, <<"set", " ", "b", " ", "bar">>,
      <<" ", "GET", " ", "a", " ">>, <<"Delete", " ", "b">>,
      <<"COUNT", " ", "foo", "\t">>, <<"BEGIN">>, <<"rollback">>,
      <<"COMMIT">>, <<"END">> }

\* strings.ToUpper on a word
ToUpperWord(w) ==
    CASE w = "set" -> "SET" [] w = "get" -> "GET" [] w = "Delete" -> "DELETE"
      [] w = "commit" -> "COMMIT" [] w = "rollback" -> "ROLLBACK"
      [] w = "a" -> "A" [] w = "b" -> "B" [] w = "foo" -> "FOO"
      [] w = "bar" -> "BAR" [] OTHER -> w

\* strings.ToUpper on a statement
ToUpper(q) == [i \in 1..Len(q) |-> ToUpperWord(q[i])]

\* strings.TrimSpace: leading and trailing white space removed
RECURSIVE TrimLeft(_)
TrimLeft(q) ==
    IF q # <<>> /\ Head(q) \in Whitespace THEN TrimLeft(Tail(q)) ELSE q

RECURSIVE TrimRight(_)
TrimRight(q) ==
    IF q # <<>> /\ q[Len(q)] \in Whitespace
    THEN TrimRight(SubSeq(q, 1, Len(q) - 1))
    ELSE q

TrimSpace(q) == TrimRight(TrimLeft(q))

\* a split that takes a run of spaces for one separator, as strings.Fields
\* does (used to test C14)
RECURSIVE SplitFields(_)
SplitFields(q) ==
    IF q = <<>> THEN <<"">>
    ELSE LET rest == SplitFields(Tail(q)) IN
         IF Head(q) = " "
         THEN IF Head(rest) = "" THEN rest ELSE <<"">> \o rest
         ELSE <<Head(q) \o Head(rest)>> \o Tail(rest)

\* strings.Split(stmt, " "): the texts between the single spaces
RECURSIVE Split(_)
Split(q) ==
    IF q = <<>> THEN <<"">>
    ELSE LET rest == Split(Tail(q)) IN
         IF Head(q) = " "
         THEN <<"">> \o rest
         ELSE <<Head(q) \o Head(rest)>> \o Tail(rest)

\* validateStatement
validateStatement(q) == IF TrimSpace(q) = <<>> THEN ERR_STMT_EMPTY ELSE NoErr

\* extractCommandArgs: the first word in upper case, and the other words
extractCommandArgs(stmt) ==
    [cmd |-> Head(Split(ToUpper(stmt))), args |-> Tail(Split(stmt))]

\* funcMap: the handler and the number of arguments of each command
funcMap ==
    [c \in {"SET", "GET", "DELETE", "COUNT", "BEGIN", "ROLLBACK", "COMMIT", "END"} |->
        [Fn |-> c,
         NumArgs |-> CASE c = "SET" -> 2
                       [] c \in {"GET", "DELETE", "COUNT"} -> 1
                       [] OTHER -> 0]]

\* processStatement up to the call of the handler: the error it returns
\* before any handler runs, or the handler and the arguments it calls
processStatement(stmt) ==
    LET ca == extractCommandArgs(TrimSpace(stmt)) IN
    IF validateStatement(stmt) # NoErr
    THEN [err |-> validateStatement(stmt), Fn |-> "-", args |-> <<>>]
    ELSE IF ca.cmd \notin DOMAIN funcMap
    THEN [err |-> ERR_INVALID_COMMAND_KEYWORD, Fn |-> "-", args |-> <<>>]
    ELSE IF Len(ca.args) # funcMap[ca.cmd].NumArgs
    THEN [err |-> ERR_INVALID_ARGS_NUM, Fn |-> "-", args |-> <<>>]
    ELSE [err |-> NoErr, Fn |-> funcMap[ca.cmd].Fn, args |-> ca.args]

\* what processStatement finds in the statements, each result once
Parsed == {processStatement(stmt) : stmt \in Statements}

\* processStatement from there on: a statement that is refused returns its
\* error and leaves the store alone; any other one runs its handler
DoStatement(p) ==
    LET d == Depth(heap, currentStore)
    IN  IF p.err # NoErr
        THEN /\ last' = Call("Refused", "-", "-", p.err, d, FALSE)
             /\ shadow' = IF d >= 1 THEN shadow ELSE NoShadow
             /\ UNCHANGED <<heap, currentStore, ops, snap>>
        ELSE CASE p.Fn = "SET" -> DoSet(p.args[1], p.args[2])
               [] p.Fn = "GET" -> DoGet(p.args[1])
               [] p.Fn = "DELETE" -> DoDelete(p.args[1])
               [] p.Fn = "COUNT" -> DoCount(p.args[1])
               [] p.Fn = "BEGIN" -> DoBegin
               [] p.Fn = "ROLLBACK" -> DoRollback
               [] p.Fn = "COMMIT" -> DoCommit
               [] p.Fn = "END" -> DoEnd

Next ==
    \/ \E k \in Keys, v \in Values : DoSet(k, v)
    \/ \E k \in Keys : DoDelete(k)
    \/ \E k \in Keys : DoGet(k)
    \/ \E v \in Values : DoCount(v)
    \/ DoBegin
    \/ DoRollback
    \/ DoCommit
    \/ DoEnd
    \/ \E p \in Parsed : DoStatement(p)

Spec == Init /\ [][Next]_vars

(* ------------------------- the current store --------------------------- *)

\* the calls of a session that sets only non-empty values and commits only
\* from depth 1
NextRestricted ==
    \/ \E key \in Keys, value \in Values \ {""} : DoSet(key, value)
    \/ \E key \in Keys : DoDelete(key)
    \/ DoBegin
    \/ DoRollback
    \/ Depth(heap, currentStore) = 1 /\ DoCommit

SpecRestricted == Init /\ [][NextRestricted]_vars

\* keys that differ in letter case only, as the "GET b", "GET B" of Example1
CaseKeys == {"b", "B"}

\* the engine calls of a session whose keys are CaseKeys
NextCase ==
    \/ \E key \in CaseKeys, value \in Values : DoSet(key, value)
    \/ \E key \in CaseKeys : DoDelete(key)
    \/ \E key \in CaseKeys : DoGet(key)
    \/ DoBegin
    \/ DoRollback
    \/ DoCommit

SpecCase == Init /\ [][NextCase]_vars

DepthNow == Depth(heap, currentStore)
GetNow(k) == Get(heap, currentStore, k)
CountNow(v) == Count(heap, currentStore, v)
ObsNow == Obs(heap, currentStore)

(* ------------------------------- claims -------------------------------- *)

\* the number of keys that Get resolves to v at the current store
KeysResolvingTo(v) ==
    Cardinality({k \in Keys : GetNow(k) = [value |-> v, err |-> NoErr]})

\* C1: in every reachable state, for every value v, Count(v) at the current
\* store equals the number of keys that Get resolves to v. (Stated for the
\* non-empty values; for "", the engine's "no value", it fails as soon as a
\* key is deleted.)
C1_CountInvariant ==
    \A v \in Values \ {""} : CountNow(v).cnt = KeysResolvingTo(v)

\* C2: a successful Rollback restores what every Get and every Count returned
\* when the transaction it ends began, and the nesting depth of that moment.
C2_RollbackInverse ==
    [][(last'.op = "Rollback" /\ last'.err = NoErr) =>
          /\ Len(snap) >= 1
          /\ Obs(heap', currentStore') = snap[Len(snap)].obs
          /\ Depth(heap', currentStore') = snap[Len(snap)].depth]_vars

\* C2 witness: a Rollback of a nested transaction that had written entries,
\* back into a transaction in which a key resolves to a value
C2_Witness ==
    /\ last.op = "Rollback" /\ last.err = NoErr /\ last.dirty
    /\ DepthNow >= 1
    /\ \E k \in Keys : GetNow(k).err = NoErr /\ GetNow(k).value # ""

\* C3: after Begin at the root, Set/Delete calls and Commit, every Get and
\* every Count returns what it returns after the same Set/Delete calls made
\* at the root without a transaction, and no transaction is active.
C3_DepthOneCommit ==
    (last.op = "Commit" /\ last.err = NoErr /\ shadow.valid) =>
        /\ DepthNow = 0
        /\ ObsNow = Obs(shadow.heap, 1)

\* C3 witness: a depth-1 Commit of a transaction that overwrote one key and
\* deleted another
C3_Witness ==
    /\ last.op = "Commit" /\ last.err = NoErr /\ shadow.valid /\ last.dirty
    /\ \E k \in Keys : GetNow(k) = [value |-> "", err |-> NoErr]
    /\ \E k \in Keys : GetNow(k).err = NoErr /\ GetNow(k).value # ""

\* C4: a Commit at depth >= 2 leaves, for every key, Get at the root equal to
\* what Get returned at the innermost layer just before the Commit.
C4_DeepCommitCollapses ==
    [][(last'.op = "Commit" /\ last'.err = NoErr /\ DepthNow >= 2) =>
          \A k \in Keys :
              Get(heap', currentStore', k) = Get(heap, currentStore, k)]_vars

\* C5 (as stated): with no transaction open, Get(key) right after
\* Set(key, v), v # "", returns v without error; right after a successful
\* Delete(key) or after Set(key, "") it fails with KEY NOT FOUND.
C5_GetAfterWrite_Original ==
    [][(DepthNow = 0 /\ last'.op \in {"Set", "Delete"} /\ last'.err = NoErr) =>
          LET got == Get(heap', currentStore', last'.key) IN
          IF last'.op = "Set" /\ last'.value # ""
          THEN got = [value |-> last'.value, err |-> NoErr]
          ELSE got.err = ERR_KEY_NOT_EXIST]_vars

\* C5 (amended): with no transaction open, Get(key) right after Set(key, v),
\* v # "", returns v without error; right after a successful Delete(key) or
\* after Set(key, "") it returns the empty string without error.
C5_GetAfterWrite ==
    [][(DepthNow = 0 /\ last'.op \in {"Set", "Delete"} /\ last'.err = NoErr) =>
          LET got == Get(heap', currentStore', last'.key) IN
          IF last'.op = "Set" /\ last'.value # ""
          THEN got = [value |-> last'.value, err |-> NoErr]
          ELSE got = [value |-> "", err |-> NoErr]]_vars

\* C5 witness: at the root, a successful Delete of a key, which Get now
\* resolves to the empty string, while the other key holds a value
C5_Witness ==
    /\ last.op = "Delete" /\ last.err = NoErr /\ last.depth = 0
    /\ GetNow(last.key) = [value |-> "", err |-> NoErr]
    /\ \E k \in Keys : GetNow(k).err = NoErr /\ GetNow(k).value # ""

\* C6: a Rollback or Commit that returns TRANSACTION NOT FOUND, and a Delete
\* or Get that returns KEY NOT FOUND, leave currentStore and every layer's Kv
\* and CountDiff as they were.
C6_FailedCallNoMutation ==
    [][(\/ last'.op \in {"Rollback", "Commit"} /\ last'.err = ERR_NOT_TRANSACTION
        \/ last'.op \in {"Delete", "Get"} /\ last'.err = ERR_KEY_NOT_EXIST) =>
          heap' = heap /\ currentStore' = currentStore]_vars

\* C6 witness: a failed Delete inside a transaction whose layers hold entries
C6_Witness ==
    /\ last.op = "Delete" /\ last.err = ERR_KEY_NOT_EXIST
    /\ DepthNow >= 1
    /\ \E i \in DOMAIN heap : heap[i].Kv # EmptyMap

\* C7: Begin succeeds and moves the depth d to d+1; Rollback fails iff d = 0
\* and else moves d to d-1; Commit fails iff d = 0 and else moves d to 0; a
\* Rollback or Commit right after a successful Commit fails.
C7_Lifecycle ==
    [][/\ last'.op = "Begin" =>
            last'.err = NoErr /\ Depth(heap', currentStore') = DepthNow + 1
       /\ last'.op = "Rollback" =>
            /\ (last'.err = ERR_NOT_TRANSACTION) <=> (DepthNow = 0)
            /\ last'.err \in {NoErr, ERR_NOT_TRANSACTION}
            /\ Depth(heap', currentStore') =
                  IF DepthNow = 0 THEN 0 ELSE DepthNow - 1
       /\ last'.op = "Commit" =>
            /\ (last'.err = ERR_NOT_TRANSACTION) <=> (DepthNow = 0)
            /\ last'.err \in {NoErr, ERR_NOT_TRANSACTION}
            /\ Depth(heap', currentStore') = 0
       /\ (last.op = "Commit" /\ last.err = NoErr
           /\ last'.op \in {"Rollback", "Commit"}) =>
            last'.err = ERR_NOT_TRANSACTION]_vars

\* C7 witness: a successful Commit that ran at depth 2 or deeper and ended
\* at the root
C7_Witness ==
    /\ last.op = "Commit" /\ last.err = NoErr /\ last.depth >= 2
    /\ DepthNow = 0

\* C8: a Delete that repeats the Delete before it, on the same key, fails
\* with KEY NOT FOUND.
C8_DeleteTwice ==
    (last.op = "Delete" /\ last.rep) => last.err = ERR_KEY_NOT_EXIST

\* C9: a Set that repeats the Set before it, with the same key and the same
\* non-empty value, leaves every Count and every Get as they were.
C9_SetTwice ==
    [][(last'.op = "Set" /\ last'.rep /\ last'.value # "") =>
          Obs(heap', currentStore') = ObsNow]_vars

\* C9 witness: a repeated Set inside a transaction, of a key that an
\* enclosing layer holds
C9_Witness ==
    /\ last.op = "Set" /\ last.rep /\ last.value # "" /\ last.err = NoErr
    /\ DepthNow >= 1
    /\ CountNow(last.value).cnt >= 1
    /\ \E i \in DOMAIN heap : i # currentStore /\ last.key \in DOMAIN heap[i].Kv

\* C10: in every reachable state and for every value v, Count(v) returns no
\* error and a number >= 0.
C10_CountNonNegative ==
    \A v \in Values : CountNow(v).err = NoErr /\ CountNow(v).cnt >= 0

\* C11: the empty string is never counted: no layer's CountDiff holds a
\* non-zero entry for "", and Count("") is 0.
C11_EmptyNeverCounted ==
    /\ \A i \in DOMAIN heap : MapInt(heap[i].CountDiff, "") = 0
    /\ CountNow("").cnt = 0

\* the layers on the chain of the current store that hold an entry for k
Holders(k) == {i \in Chain(heap, currentStore) : k \in DOMAIN heap[i].Kv}

\* the holder of k nearest to the current store (the deepest one)
Nearest(k) ==
    CHOOSE i \in Holders(k) :
        \A j \in Holders(k) : Depth(heap, j) <= Depth(heap, i)

C13_DeleteShadows ==
    [][/\ (/\ last'.op = "Delete" /\ last'.err = NoErr /\ DepthNow >= 1
           /\ last'.key \notin DOMAIN heap[currentStore].Kv
           /\ GetNow(last'.key).value # "") =>
            LET k == last'.key
                v == GetNow(k).value
            IN  /\ currentStore' = currentStore
                /\ \A i \in DOMAIN heap \ {currentStore} : heap'[i] = heap[i]
                /\ heap'[currentStore].Kv[k] = ""
                /\ handleGet(heap', currentStore', k) = [out |-> "NULL", err |-> NoErr]
                /\ Count(heap', currentStore', v).cnt = CountNow(v).cnt - 1
       /\ (last'.op = "Rollback" /\ last'.err = NoErr) =>
            \A k \in Keys :
                LET up == Get(heap, heap[currentStore].Parent, k) IN
                (/\ k \in DOMAIN heap[currentStore].Kv
                 /\ heap[currentStore].Kv[k] = ""
                 /\ up.err = NoErr /\ up.value # "") =>
                    /\ handleGet(heap', currentStore', k).out = up.value
                    /\ Count(heap', currentStore', up.value) =
                          snap[Len(snap)].obs.count[up.value]]_vars

\* C13 witness: inside a transaction, a successful Delete of a key whose
\* value an enclosing layer still holds
C13_Witness ==
    /\ last.op = "Delete" /\ last.err = NoErr /\ DepthNow >= 1
    /\ heap[currentStore].Kv = [k \in {last.key} |-> ""]
    /\ Get(heap, heap[currentStore].Parent, last.key).value # ""
    /\ handleGet(heap, currentStore, last.key).out = "NULL"

\* the places of a statement that hold no white space
Solid(stmt) == {i \in 1..Len(stmt) : stmt[i] \notin Whitespace}

\* the first and the last of them
FirstSolid(stmt) == CHOOSE i \in Solid(stmt) : \A j \in Solid(stmt) : i <= j
LastSolid(stmt) == CHOOSE i \in Solid(stmt) : \A j \in Solid(stmt) : j <= i

\* the number of arguments of a statement: one for each space between its
\* first and its last piece that is no white space
ArgCount(stmt) ==
    Cardinality({i \in FirstSolid(stmt)..LastSolid(stmt) : stmt[i] = " "})

\* the first token is one word, ended by a space or by the statement's end
FirstIsWord(stmt) ==
    \/ FirstSolid(stmt) = LastSolid(stmt)
    \/ stmt[FirstSolid(stmt) + 1] = " "

\* the fixed number of arguments of each command
Arity ==
    [c \in {"SET"} |-> 2] @@ [c \in {"GET", "DELETE", "COUNT"} |-> 1]
      @@ [c \in {"BEGIN", "ROLLBACK", "COMMIT", "END"} |-> 0]

\* what C14 says processStatement returns for a statement
Expected(stmt) ==
    IF Solid(stmt) = {} THEN ERR_STMT_EMPTY
    ELSE IF ~FirstIsWord(stmt) \/ ToUpperWord(stmt[FirstSolid(stmt)]) \notin DOMAIN Arity
    THEN ERR_INVALID_COMMAND_KEYWORD
    ELSE IF ArgCount(stmt) # Arity[ToUpperWord(stmt[FirstSolid(stmt)])]
    THEN ERR_INVALID_ARGS_NUM
    ELSE NoErr

StatementsClassified ==
    \A stmt \in Statements : processStatement(stmt).err = Expected(stmt)

\* C14: an empty or white-space statement returns ERR_STMT_EMPTY, one whose
\* first token is no known command ERR_INVALID_COMMAND_KEYWORD, one whose
\* number of arguments differs from the command's ERR_INVALID_ARGS_NUM; a
\* statement refused in one of these ways leaves the store as it was.
C14_StatementValidation ==
    [][/\ StatementsClassified
       /\ last'.op = "Refused" =>
            /\ last'.err \in {ERR_STMT_EMPTY, ERR_INVALID_COMMAND_KEYWORD,
                              ERR_INVALID_ARGS_NUM}
            /\ heap' = heap /\ currentStore' = currentStore]_vars

\* C14 witness: a statement with a wrong number of arguments refused inside
\* a transaction whose layers hold entries
C14_Witness ==
    /\ last.op = "Refused" /\ last.err = ERR_INVALID_ARGS_NUM
    /\ DepthNow >= 1
    /\ \A i \in DOMAIN heap : heap[i].Kv # EmptyMap

\* the stores met in at most n steps along the parent links from s
RECURSIVE Reach(_, _, _)
Reach(h, s, n) ==
    IF n = 0 \/ s = Nil \/ s \notin DOMAIN h
    THEN {}
    ELSE {s} \cup Reach(h, h[s].Parent, n - 1)

\* the stores reachable from s
Reachable(h, s) == Reach(h, s, Cardinality(DOMAIN h))

\* the roots among them
Roots(h, s) == {i \in Reachable(h, s) : h[i].Parent = Nil}

\* the parent links from s form a finite chain without a cycle that ends in
\* exactly one root
WellFormed(h, s) ==
    /\ s \in DOMAIN h
    /\ \A i \in Reachable(h, s) : h[i].Parent \in (DOMAIN h) \cup {Nil}
    /\ \A S \in (SUBSET Reachable(h, s)) \ {{}} : \E i \in S : h[i].Parent \notin S
    /\ Cardinality(Roots(h, s)) = 1

\* C15: in every reachable state the parent links from the current store
\* form a finite acyclic chain ending in exactly one root, and no call other
\* than the InitStore of END changes which store that root is.
C15_ChainWellFormed ==
    [][/\ WellFormed(heap, currentStore)
       /\ WellFormed(heap', currentStore')
       /\ last'.op # "InitStore" =>
            Roots(heap', currentStore') = Roots(heap, currentStore)]_vars

\* C15 witness: a chain of three stores, left by a Rollback from depth 3
C15_Witness ==
    /\ last.op = "Rollback" /\ last.err = NoErr
    /\ Cardinality(Reachable(heap, currentStore)) = 3
    /\ heap[heap[currentStore].Parent].Parent \in Roots(heap, currentStore)


\* the change a Set(key, value) makes to the count of w when key resolved to
\* old before it
SetDelta(old, value, w) ==
    (IF old.err # ERR_KEY_NOT_EXIST /\ old.value = w THEN -1 ELSE 0)
    + (IF value # "" /\ value = w THEN 1 ELSE 0)

\* C16: a Set or Delete run at depth >= 1 leaves the current-store pointer
\* and every other layer (its Kv, CountDiff and Parent) unchanged; when it
\* succeeds, the current layer's CountDiff alone takes the decrement for the
\* old value and the increment for the new one, also when the old value was
\* stored in an ancestor.
C16_WritesOnlyCurrentLayer ==
    [][(last'.op \in {"Set", "Delete"} /\ DepthNow >= 1) =>
          LET old == Get(heap, currentStore, last'.key)
              value == IF last'.op = "Set" THEN last'.value ELSE ""
          IN  /\ currentStore' = currentStore
              /\ DOMAIN heap' = DOMAIN heap
              /\ \A i \in (DOMAIN heap) \ {currentStore} : heap'[i] = heap[i]
              /\ heap'[currentStore].Parent = heap[currentStore].Parent
              /\ last'.err = NoErr =>
                   \A w \in Values :
                       MapInt(heap'[currentStore].CountDiff, w)
                         = MapInt(heap[currentStore].CountDiff, w)
                           + SetDelta(old, value, w)
              /\ last'.err # NoErr => heap' = heap]_vars

\* C16 witness: a Set at depth >= 1 has overwritten a non-empty value that
\* only an ancestor stores, and the current layer carries the decrement
C16_Witness ==
    /\ last.op = "Set" /\ last.err = NoErr /\ DepthNow >= 1
    /\ \E i \in Chain(heap, currentStore) \ {currentStore} :
           /\ last.key \in DOMAIN heap[i].Kv
           /\ heap[i].Kv[last.key] \notin {"", last.value}
           /\ MapInt(heap[currentStore].CountDiff, heap[i].Kv[last.key]) < 0


\* C17: a successful Commit writes exactly the entries of the old current
\* layer into the root's Kv: every key of that layer gets the layer's value
\* there, and every other key keeps the root entry (present or absent) it
\* had, whatever the layers in between held for it.
C17_CommitMergesInnermost ==
    [][(last'.op = "Commit" /\ last'.err = NoErr) =>
          LET kv == heap[currentStore].Kv
              pk == heap[GetPrimaryStore(heap, currentStore)].Kv
              nk == heap'[currentStore'].Kv
          IN  /\ currentStore' = GetPrimaryStore(heap, currentStore)
              /\ \A k \in DOMAIN kv : k \in DOMAIN nk /\ nk[k] = kv[k]
              /\ \A k \in Keys \ DOMAIN kv :
                     /\ k \in DOMAIN nk <=> k \in DOMAIN pk
                     /\ k \in DOMAIN pk => nk[k] = pk[k]]_vars

\* C17 witness: a Commit has merged a layer with entries while a layer in
\* between held a different entry for a key the committed layer had none for
C17_Witness ==
    /\ last.op = "Commit" /\ last.err = NoErr
    /\ last.dirty /\ last.mid
    /\ heap[currentStore].Kv # EmptyMap


\* the sum of the CountDiff entries for v over the stores in S
RECURSIVE SumDiff(_, _, _)
SumDiff(h, S, v) ==
    IF S = {}
    THEN 0
    ELSE LET i == CHOOSE j \in S : TRUE
         IN  MapInt(h[i].CountDiff, v) + SumDiff(h, S \ {i}, v)

\* C18: a successful Commit from any depth ends at the root, whose CountDiff
\* then holds for every value the sum of the CountDiff entries of all layers
\* from the old current layer to the root, so that Count(v) right after the
\* Commit equals Count(v) right before it.
C18_CommitPreservesCounts ==
    [][(last'.op = "Commit" /\ last'.err = NoErr) =>
          /\ heap'[currentStore'].Parent = Nil
          /\ \A v \in Values :
                 /\ MapInt(heap'[currentStore'].CountDiff, v)
                      = SumDiff(heap, Chain(heap, currentStore), v)
                 /\ Count(heap', currentStore', v)
                      = Count(heap, currentStore, v)
                 /\ Count(heap', currentStore', v).err = NoErr]_vars

\* C18 witness: after a Commit from depth >= 2 the root counts a value that
\* only a layer in between had set: no key resolves to it any more
C18_Witness ==
    /\ last.op = "Commit" /\ last.err = NoErr
    /\ last.depth >= 2 /\ last.mid /\ DepthNow = 0
    /\ \E v \in Values \ {""} : CountNow(v).cnt >= 1 /\ KeysResolvingTo(v) = 0


\* C19: in every state of a session that sets only non-empty values and
\* commits only from depth exactly 1 (with Delete, Begin and Rollback used
\* freely), for every non-empty value v, Count(v) equals the number of keys
\* that Get resolves to v.
C19_RestrictedCountInvariant ==
    \A v \in Values \ {""} :
        CountNow(v) = [cnt |-> KeysResolvingTo(v), err |-> NoErr]

\* C19 witness: such a session has committed a transaction that deleted a
\* key, and a value is still counted
C19_Witness ==
    /\ last.op = "Commit" /\ last.err = NoErr /\ last.depth = 1
    /\ \E k \in Keys : GetNow(k) = [value |-> "", err |-> NoErr]
    /\ \E v \in Values \ {""} : CountNow(v).cnt >= 1


\* C20: a Get or a Count, of a key or value present or not, leaves the
\* current-store pointer and every layer (Kv, CountDiff, Parent) as they
\* were, so every Get and Count gives the same answer after it as before
\* it, and a read that repeats the read before it returns the same error.
C20_ReadsAreReadOnly ==
    [][last'.op \in {"Get", "Count"} =>
          /\ currentStore' = currentStore
          /\ heap' = heap
          /\ Obs(heap', currentStore') = Obs(heap, currentStore)
          /\ last'.rep => last'.err = last.err]_vars

\* C20 witness: inside a transaction that holds entries, a Get of a key that
\* no layer holds has been repeated
C20_Witness ==
    /\ last.op = "Get" /\ last.rep /\ last.err = ERR_KEY_NOT_EXIST
    /\ DepthNow >= 1
    /\ heap[currentStore].Kv # EmptyMap
    /\ \E i \in Chain(heap, currentStore) \ {currentStore} : heap[i].Kv # EmptyMap


\* C21: every Set(k, v) succeeds; it leaves Get(k') as it was for every key
\* k' other than k, keys that differ from k in letter case only included,
\* and it leaves Count(w) as it was for every value w other than v and the
\* value k resolved to before the call.
C21_SetIsLocal ==
    [][last'.op = "Set" =>
          LET k   == last'.key
              v   == last'.value
              old == Get(heap, currentStore, k)
              touched == {v} \cup (IF old.err = NoErr THEN {old.value} ELSE {})
          IN  /\ last'.err = NoErr
              /\ Get(heap', currentStore', k) = [value |-> v, err |-> NoErr]
              /\ \A k2 \in (Keys \cup CaseKeys) \ {k} :
                     Get(heap', currentStore', k2) = Get(heap, currentStore, k2)
              /\ \A w \in Values \ touched :
                     Count(heap', currentStore', w) = Count(heap, currentStore, w)]_vars

\* C21 witness: inside a transaction a Set of "b" has replaced a value held
\* by the root while "B" resolves to another value
C21_Witness ==
    /\ last.op = "Set" /\ last.err = NoErr /\ last.key = "b"
    /\ DepthNow >= 1
    /\ GetNow("b") = [value |-> last.value, err |-> NoErr]
    /\ GetNow("B").err = NoErr
    /\ GetNow("B").value \notin {"", last.value}
    /\ "b" \in DOMAIN heap[GetPrimaryStore(heap, currentStore)].Kv
    /\ heap[GetPrimaryStore(heap, currentStore)].Kv["b"] \notin {"", last.value}

====
